---- MODULE Spec2Model ----
(***************************************************************************)
(* Model of starlette_inertia: InertiaMiddleware.__call__, the per-request *)
(* InertiaResponder.send and InertiaResponse.__call__.                     *)
(*                                                                         *)
(* A header collection (starlette MutableHeaders over a raw header list)   *)
(* is a function from lower-cased header names to values; an absent header *)
(* is a name outside the DOMAIN.  Bodies are byte strings, modelled as     *)
(* TLA+ strings.  MutableHeaders(scope=message) shares the header list of  *)
(* the message (the starlette release the package was written against;     *)
(* the package's tests depend on it), so a header set through it is seen   *)
(* by every holder of that list.                                           *)
(***************************************************************************)
EXTENDS Integers, Sequences, FiniteSets, TLC

VARIABLES
    middleware,     \* the keyword arguments InertiaMiddleware is configured with,
                    \* and whether InertiaMiddleware.__init__ has run and returned
    asset_version,  \* InertiaMiddleware.asset_version: the configured string, or the
                    \* string the configured provider function returns when called now
    live,           \* requests the server admits in this run
    pc,             \* per request: position of the request's task
    request,        \* per request: starlette Request (scope type, method, headers, url)
    as_html,        \* per request: as_html bound into wrapped_send
    app_called,     \* per request: self.app was invoked
    responder,      \* per request: InertiaResponder fields
    response,       \* per request: the Response object being sent
    message,        \* per request: message of the latest responder.send call
    raised,         \* per request: exception of the latest responder.send call
    calls,          \* per request: number of responder.send calls made
    down_statuses,  \* per request: statuses of the Starts passed to send so far
    sent,           \* per request: events delivered to the transport send
    attempts        \* per request: number of calls of the transport send

vars == <<middleware, asset_version, live, pc, request, as_html, app_called, responder,
          response, message, raised, calls, down_statuses, sent, attempts>>

-----------------------------------------------------------------------------
(* Bounds *)

\* send calls a free-form downstream application makes for one request
MaxEvents == 3

-----------------------------------------------------------------------------
(* Python values *)

None == "<None>"

Truthy(v) == v # None /\ v # ""

\* dict / Headers .get(key)
Get(h, k) == IF k \in DOMAIN h THEN h[k] ELSE None

\* MutableHeaders.__setitem__
SetHeader(h, k, v) == [x \in DOMAIN h \cup {k} |-> IF x = k THEN v ELSE h[x]]

\* MutableHeaders.__delitem__ (no error when the header is absent)
DelHeader(h, k) == [x \in DOMAIN h \ {k} |-> h[x]]

\* MutableHeaders.add_vary_header
AddVaryHeader(h, vary) ==
    SetHeader(h, "vary",
              IF "vary" \in DOMAIN h THEN h["vary"] \o ", " \o vary ELSE vary)

\* A header mapping built from optional values: None leaves the header out.
MkHeaders(all) == [k \in {x \in DOMAIN all : all[x] # None} |-> all[k]]

EmptyHeaders == MkHeaders([location |-> None])

-----------------------------------------------------------------------------
(* Requests *)

Reqs == {"r1", "r2"}

Methods == {"GET", "POST", "PUT", "PATCH", "DELETE"}

\* Version strings a client may hold: the deployed one and a stale one.
Versions == {"foo", "bar"}

\* Configured asset_version strings
AssetVersions == {"foo"}

Host == "http://testserver"

HttpRequests ==
    { [type |-> "http", method |-> m, path |-> u[1], query |-> u[2],
       headers |-> MkHeaders([x \in {"x-requested-with", "x-inertia", "x-inertia-version"} |->
                                CASE x = "x-requested-with" -> a
                                  [] x = "x-inertia" -> i
                                  [] OTHER -> v])] :
        m \in Methods,
        u \in {<<"/", "">>, <<"/unknown", "page=2">>},
        a \in {None, "XMLHttpRequest", "fetch"},
        i \in {None, "", "true"},
        v \in {None, ""} \cup Versions }

\* A websocket scope has no method.
WebsocketRequests ==
    { [type |-> "websocket", method |-> None, path |-> "/", query |-> "",
       headers |-> MkHeaders([x \in {"x-requested-with"} |-> a])] :
        a \in {None, "XMLHttpRequest"} }

Requests == HttpRequests \cup WebsocketRequests

\* Inertia requests of a client that asks for a partial reload: the
\* X-Inertia-Partial-Component and X-Inertia-Partial-Data request headers,
\* each absent or present.
PartialRequests ==
    { [type |-> "http", method |-> m, path |-> "/", query |-> "",
       headers |-> MkHeaders([x \in {"x-requested-with", "x-inertia", "x-inertia-version",
                                     "x-inertia-partial-component",
                                     "x-inertia-partial-data"} |->
                                CASE x = "x-requested-with" -> "XMLHttpRequest"
                                  [] x = "x-inertia" -> "true"
                                  [] x = "x-inertia-version" -> "foo"
                                  [] x = "x-inertia-partial-component" -> c
                                  [] OTHER -> d])] :
        m \in {"GET", "POST"},
        c \in {None, "Test", "Nomatch"},
        d \in {None, "", "foo", "foo,bar", "foo,nope"} }


\* str(request.url)
UrlStr(req) == Host \o req.path \o (IF req.query = "" THEN "" ELSE "?" \o req.query)

\* Mutant: the path with the query string
UrlPathAndQuery(req) == req.path \o (IF req.query = "" THEN "" ELSE "?" \o req.query)

\* request.url.path
UrlPath(req) == req.path

-----------------------------------------------------------------------------
(* Messages of the two-phase response protocol *)

StartType == "http.response.start"

BodyType == "http.response.body"

StartMessage(status, headers) ==
    [type |-> StartType, status |-> status, headers |-> headers]

\* starlette Response.__call__ sends the body without a more_body key
BodyMessage(body) == [type |-> BodyType, body |-> body]

IsStart(m) == m.type = StartType

IsBody(m) == m.type = BodyType

\* message.get("more_body", False)
MoreBody(m) == IF "more_body" \in DOMAIN m THEN m.more_body ELSE FALSE

\* message.get("body", b"")
BodyOf(m) == IF "body" \in DOMAIN m THEN m.body ELSE ""

NoMessage == [type |-> "unset"]

-----------------------------------------------------------------------------
(* JSON rendering: json.dumps(content, separators=(",", ":")) *)

JsonString(s) == IF s = None THEN "null" ELSE "\"" \o s \o "\""

RECURSIVE JsonMembers(_)
JsonMembers(pairs) ==
    IF pairs = <<>> THEN ""
    ELSE JsonString(pairs[1][1]) \o ":" \o JsonString(pairs[1][2])
         \o (IF Len(pairs) > 1 THEN "," ELSE "")
         \o JsonMembers(Tail(pairs))

JsonObject(pairs) == "{" \o JsonMembers(pairs) \o "}"

\* JSONResponse.render of the page object built in InertiaResponse.__call__
JsonPage(component, version, props, url) ==
    "{" \o "\"component\":" \o JsonString(component)
        \o ",\"version\":" \o JsonString(version)
        \o ",\"props\":" \o JsonObject(props)
        \o ",\"url\":" \o JsonString(url) \o "}"

-----------------------------------------------------------------------------
(* Response objects *)

NoResponse ==
    [class |-> "none", status_code |-> 0, raw_headers |-> EmptyHeaders,
     body |-> "", component |-> None, content |-> <<>>]

\* starlette PlainTextResponse(content, status_code, headers): init_headers
\* keeps the given headers and adds content-length and content-type.
PlainTextResponse(content, status_code, headers) ==
    [class |-> "PlainTextResponse", status_code |-> status_code,
     raw_headers |-> SetHeader(SetHeader(headers, "content-length", ToString(Len(content))),
                               "content-type", "text/plain; charset=utf-8"),
     body |-> content, component |-> None, content |-> <<>>]

\* starlette RedirectResponse(url, status_code): empty body, location header
RedirectResponse(url, status_code) ==
    [class |-> "RedirectResponse", status_code |-> status_code,
     raw_headers |-> SetHeader(SetHeader(EmptyHeaders, "content-length", "0"),
                               "location", url),
     body |-> "", component |-> None, content |-> <<>>]

\* InertiaResponse.render keeps the content and returns b"", so the headers
\* computed in Response.__init__ describe an empty body.
InertiaRender(content) == ""

InertiaResponse(content, component, status_code) ==
    [class |-> "InertiaResponse", status_code |-> status_code,
     raw_headers |-> SetHeader(SetHeader(EmptyHeaders, "content-length",
                                         ToString(Len(InertiaRender(content)))),
                               "content-type", "application/json"),
     body |-> InertiaRender(content), component |-> component, content |-> content]

\* What a route handler (or the router) of the wrapped application returns.
HandlerResponses ==
    { InertiaResponse(<< <<"foo", "bar">> >>, "Test", 200),
      InertiaResponse(<< <<"foo", "bar">> >>, "Test", 404),
      PlainTextResponse("Not Found", 404, EmptyHeaders),
      RedirectResponse("/next", 302) }

\* The handlers of the partial-reload tests: one prop, and three props
PartialHandlers ==
    { InertiaResponse(<< <<"foo", "bar">> >>, "Test", 200),
      InertiaResponse(<< <<"foo", "bar">>, <<"bar", "baz">>, <<"baz", "foo">> >>, "Test", 200) }


\* The wrapped application returns no Response object: it drives its send
\* channel itself.
RawApp == [NoResponse EXCEPT !.class = "raw"]

Handlers == HandlerResponses \cup {RawApp}

\* Messages a free-form ASGI application may pass to its send channel.
RawMessages(req) ==
    IF req.type = "http"
    THEN { StartMessage(200, EmptyHeaders),
           StartMessage(302, SetHeader(EmptyHeaders, "location", "/next")),
           [type |-> StartType, status |-> 302],
           [type |-> BodyType, body |-> "chunk"],
           [type |-> BodyType, body |-> "chunk", more_body |-> TRUE] }
    ELSE { [type |-> "websocket.accept"],
           StartMessage(200, EmptyHeaders),
           [type |-> BodyType, body |-> "chunk"] }

-----------------------------------------------------------------------------
(* InertiaResponder *)

\* InertiaResponder.__init__: self.message is not assigned there.
NewResponder(inertia_version) ==
    [started |-> FALSE, has_message |-> FALSE, message |-> NoMessage,
     inertia_version |-> inertia_version]

\* Mutant: POST redirects coerced too
CoercedWithPost(method, status) ==
    method \in {"POST", "PUT", "PATCH", "DELETE"} /\ status = 302

\* Mutant: the 302 of every method coerced
CoercedAnyMethod(method, status) == status = 302


\* The redirect test of InertiaResponder.send
Coerced(method, status) == method \in {"PUT", "PATCH", "DELETE"} /\ status = 302

\* Mutant: the JSON labelling whatever as_html says
BufferedHeadersJsonOnly(headers, html, inertia_version, path) ==
    SetHeader(SetHeader(SetHeader(SetHeader(headers, "x-inertia", "true"),
                                  "content-type", "application/json"),
                        "x-inertia-internal-version", inertia_version),
              "x-inertia-internal-path", path)

\* Mutant: the X-Inertia marker left out
BufferedHeadersNoMarker(headers, html, inertia_version, path) ==
    SetHeader(SetHeader(SetHeader(headers, "content-type",
                                  IF html THEN "text/html" ELSE "application/json"),
                        "x-inertia-internal-version", inertia_version),
              "x-inertia-internal-path", path)

\* Mutant: Accept is never added to Vary
BufferedHeadersNoVary(headers, html, inertia_version, path) ==
    LET h1 == SetHeader(headers, "x-inertia", "true")
        h2 == SetHeader(h1, "content-type", IF html THEN "text/html" ELSE "application/json")
        h4 == SetHeader(h2, "x-inertia-internal-version", inertia_version)
    IN  SetHeader(h4, "x-inertia-internal-path", path)


\* Headers of a Start message on the buffered path of InertiaResponder.send
BufferedHeaders(headers, html, inertia_version, path) ==
    LET h1 == SetHeader(headers, "x-inertia", "true")
        h2 == IF html
              THEN SetHeader(h1, "content-type", "text/html")
              ELSE LET h3 == SetHeader(h1, "content-type", "application/json")
                   IN  IF ~ \E x \in {"x-inertia-partial-data", "x-inertia-partial-component"} :
                                x \in DOMAIN h3
                       THEN AddVaryHeader(h3, "Accept")
                       ELSE h3
        h4 == SetHeader(h2, "x-inertia-internal-version", inertia_version)
    IN  SetHeader(h4, "x-inertia-internal-path", path)

\* self.template.render(body=body, scripts=[...], links=[...]) with the
\* default configuration (no scripts, no links): the document with the page
\* object in the data attribute of its container element.
TemplateRender(body) ==
    "<!DOCTYPE html><html><head></head><body><div id=\"app\" data-page='"
        \o body \o "'></div></body></html>"

\* message["headers"], created empty when the message has none
WithHeaders(msg) ==
    IF "headers" \in DOMAIN msg
    THEN msg
    ELSE [k \in DOMAIN msg \cup {"headers"} |->
              IF k = "headers" THEN EmptyHeaders ELSE msg[k]]

\* The result of one InertiaResponder.send call: the new responder fields,
\* the events passed to the transport send, in order, and the exception
\* raised ("none" when the call returns).
Result(self, out, exc) == [self |-> self, out |-> out, exc |-> exc]

\* Mutant: the labelled Start is passed to the transport when it arrives,
\* and kept for the flush as well
SendStartEager(self, m0, req, html) ==
    IF req.type # "http"
    THEN Result(self, <<>>, "KeyError")
    ELSE IF Coerced(req.method, m0.status)
    THEN IF Get(m0.headers, "location") = None
         THEN Result(self, <<>>, "AttributeError")
         ELSE Result(self,
                     << StartMessage(303, SetHeader(m0.headers, "location",
                                                    Get(m0.headers, "location"))) >>,
                     "none")
    ELSE LET m1 == [m0 EXCEPT !.headers =
                        BufferedHeaders(m0.headers, html, self.inertia_version, UrlPath(req))]
         IN  Result([self EXCEPT !.has_message = TRUE, !.message = m1], <<m1>>, "none")


\* InertiaResponder.send, message type http.response.start
SendStart(self, m0, req, html) ==
    IF req.type # "http"
    THEN \* request.method reads scope["method"]
         Result(self, <<>>, "KeyError")
    ELSE IF Coerced(req.method, m0.status)
    THEN IF Get(m0.headers, "location") = None
         THEN \* headers["Location"] = None
              Result(self, <<>>, "AttributeError")
         ELSE Result(self,
                     << StartMessage(303, SetHeader(m0.headers, "location",
                                                    Get(m0.headers, "location"))) >>,
                     "none")
    ELSE Result([self EXCEPT !.has_message = TRUE,
                             !.message = [m0 EXCEPT !.headers =
                                 BufferedHeaders(m0.headers, html,
                                                 self.inertia_version, UrlPath(req))]],
                <<>>, "none")

\* Mutant: a non-final chunk is flushed and forwarded like a final body
SendFirstBodyStreaming(self, m0, html) ==
    IF ~ self.has_message
    THEN Result([self EXCEPT !.started = TRUE], <<>>, "AttributeError")
    ELSE Result([self EXCEPT !.started = TRUE], <<self.message, m0>>, "none")

\* InertiaResponder.send, message type http.response.body, not self.started
SendFirstBody(self, m0, html) ==
    LET s1 == [self EXCEPT !.started = TRUE]
        rendered == TemplateRender(BodyOf(m0))
        m1 == IF html
              THEN [k \in DOMAIN m0 \cup {"body"} |->
                      CASE k = "body" -> rendered
                        [] k = "headers" ->
                             SetHeader(m0.headers, "content-length", ToString(Len(rendered)))
                        [] OTHER -> m0[k]]
              ELSE m0
    IN  IF MoreBody(m0)
        THEN Result(s1, <<>>, "ValueError")
        ELSE IF ~ self.has_message
        THEN \* self.message does not exist
             Result(s1, <<>>, "AttributeError")
        ELSE Result(s1, <<self.message, m1>>, "none")

\* InertiaResponder.send(message, send, request, as_html)
send(self, msg, req, html) ==
    LET m0 == WithHeaders(msg)
    IN  IF IsStart(m0)
        THEN SendStart(self, m0, req, html)
        ELSE IF IsBody(m0) /\ ~ self.started
        THEN SendFirstBody(self, m0, html)
        ELSE Result(self, <<m0>>, "none")

-----------------------------------------------------------------------------
(* InertiaMiddleware *)

\* InertiaMiddleware._inertia_version: the string, or the provider's result
InertiaVersion == asset_version

\* Mutant: the staleness test applied to every method
StaleAnyMethod(method, client_version, server_version) ==
    client_version # server_version

\* Mutant: the staleness test of the fastapi_inertia draft, which lets an
\* absent or empty client version through
StaleFastapi(method, client_version, server_version) ==
    method = "GET" /\ Truthy(client_version) /\ client_version # server_version

\* Mutant: the staleness test skipped when the version header was not sent
StaleIfSent(method, client_version, server_version) ==
    method = "GET" /\ client_version # None /\ client_version # server_version

\* The staleness test of InertiaMiddleware.__call__
Stale(method, client_version, server_version) ==
    method = "GET" /\ client_version # server_version

\* The locally produced responses of InertiaMiddleware.__call__
MissingHeaderResponse ==
    PlainTextResponse("Inertia headers not found.", 400, EmptyHeaders)

\* Mutant: the location without scheme, host and query string
VersionMismatchPathOnly(req) ==
    PlainTextResponse("Inertia version does not match", 409,
                      SetHeader(EmptyHeaders, "x-inertia-location", UrlPath(req)))

VersionMismatchResponse(req) ==
    PlainTextResponse("Inertia version does not match", 409,
                      SetHeader(EmptyHeaders, "x-inertia-location", UrlStr(req)))

\* The request is a plain navigation.
NotAjax(req) == Get(req.headers, "x-requested-with") # "XMLHttpRequest"

\* Mutant: only an absent marker counts, an empty one passes
NoInertiaHeaderAbsentOnly(req) == "x-inertia" \notin DOMAIN req.headers

\* The AJAX request lacks the Inertia marker.
NoInertiaHeader(req) == ~ Truthy(Get(req.headers, "x-inertia"))

\* Outcome of InertiaMiddleware.__call__ up to the call it awaits: "app"
\* (self.app is awaited, with as_html) or "local" (a local response is sent).
Classify(req, server_version) ==
    IF req.type # "http"
    THEN [to |-> "app", html |-> FALSE, local |-> NoResponse]
    ELSE IF NotAjax(req)
    THEN [to |-> "app", html |-> TRUE, local |-> NoResponse]
    ELSE IF NoInertiaHeader(req)
    THEN [to |-> "local", html |-> FALSE, local |-> MissingHeaderResponse]
    ELSE IF Stale(req.method, Get(req.headers, "x-inertia-version"), server_version)
    THEN [to |-> "local", html |-> FALSE, local |-> VersionMismatchResponse(req)]
    ELSE [to |-> "app", html |-> FALSE, local |-> NoResponse]

\* The keyword parameters of InertiaMiddleware.__init__ (app is positional)
InitParams == {"asset_version", "scripts", "links", "index_template_path"}

\* The keyword arguments the package's tests configure the middleware with.
\* A props callback and a path pattern are written as their source text.
ConfigKwargs ==
    { [asset_version |-> "foo"] }
    \cup { [asset_version |-> "foo", props_callback |-> c] :
              c \in {None, "lambda x: {'bar': 'foo'}", "lambda x: {'foo': 'baz'}"} }
    \cup { [asset_version |-> "foo", paths |-> p] : p \in {None, "/(foo|bar)"} }

\* InertiaMiddleware(app, **kwargs): python raises TypeError for a keyword
\* argument that is no parameter of __init__.
NewMiddleware(kwargs) ==
    [kwargs |-> kwargs,
     built |-> IF DOMAIN kwargs \subseteq InitParams THEN "yes" ELSE "TypeError"]

-----------------------------------------------------------------------------
(* InertiaResponse *)

\* InertiaResponse.__call__ reading the request path from a header the
\* responder does not set
InertiaPageNoUrl(resp) ==
    LET inertia_version == Get(resp.raw_headers, "x-inertia-internal-version")
        inertia_url == Get(resp.raw_headers, "x-inertia-internal-url")
    IN  [raw_headers |-> DelHeader(DelHeader(resp.raw_headers, "x-inertia-internal-version"),
                                   "x-inertia-internal-path"),
         body |-> JsonPage(resp.component, inertia_version, resp.content, inertia_url)]


\* InertiaResponse.__call__ after its Start was sent: the internal headers
\* are read from, then deleted from, the response's header list, and the
\* page object is rendered.  Gives the header list and the body.
InertiaPage(resp) ==
    LET inertia_version == Get(resp.raw_headers, "x-inertia-internal-version")
        inertia_url == Get(resp.raw_headers, "x-inertia-internal-path")
    IN  [raw_headers |-> DelHeader(DelHeader(resp.raw_headers, "x-inertia-internal-version"),
                                   "x-inertia-internal-path"),
         body |-> JsonPage(resp.component, inertia_version, resp.content, inertia_url)]

-----------------------------------------------------------------------------
(* State machine *)

\* No request has entered the middleware.
NoRequestYet ==
    /\ pc = [r \in Reqs |-> "idle"]
    /\ request = [r \in Reqs |-> CHOOSE q \in WebsocketRequests : TRUE]
    /\ as_html = [r \in Reqs |-> FALSE]
    /\ app_called = [r \in Reqs |-> FALSE]
    /\ responder = [r \in Reqs |-> NewResponder(None)]
    /\ response = [r \in Reqs |-> NoResponse]
    /\ message = [r \in Reqs |-> NoMessage]
    /\ raised = [r \in Reqs |-> "none"]
    /\ calls = [r \in Reqs |-> 0]
    /\ down_statuses = [r \in Reqs |-> {}]
    /\ sent = [r \in Reqs |-> <<>>]
    /\ attempts = [r \in Reqs |-> 0]

Init ==
    /\ asset_version \in AssetVersions
    /\ middleware = NewMiddleware([asset_version |-> asset_version])
    /\ live = {"r1"}
    /\ NoRequestYet

\* Mutant: every transport send guarded on its own, so that the sends after
\* a failed one are still made
TransportGoesOn(out, fail_at) ==
    IF fail_at \in DOMAIN out
    THEN [delivered |-> SubSeq(out, 1, fail_at - 1) \o SubSeq(out, fail_at + 1, Len(out)),
          attempts |-> Len(out), exc |-> "none"]
    ELSE [delivered |-> out, attempts |-> Len(out), exc |-> "none"]

\* The `await send(...)` calls of one InertiaResponder.send call, in order,
\* over a transport whose call number fail_at raises (the connection is
\* closed): no call is guarded, so the exception leaves the responder and
\* the sends after it are not made.
Transport(out, fail_at) ==
    IF fail_at \in DOMAIN out
    THEN [delivered |-> SubSeq(out, 1, fail_at - 1),
          attempts |-> fail_at, exc |-> "ConnectionClosed"]
    ELSE [delivered |-> out, attempts |-> Len(out), exc |-> "none"]

\* Mutant: the responder kept on the middleware instance, so that the
\* requests in flight use one responder
DeliverShared(r, rs, m) ==
    LET o == CHOOSE x \in Reqs : x # r
        shared == IF pc[o] \notin {"idle", "entered"} THEN responder[o] ELSE rs
        res == send(shared, m, request[r], as_html[r])
    IN  /\ responder' = [x \in Reqs |-> res.self]
        /\ sent' = [sent EXCEPT ![r] = @ \o res.out]
        /\ attempts' = [attempts EXCEPT ![r] = @ + Len(res.out)]
        /\ raised' = [raised EXCEPT ![r] = res.exc]
        /\ message' = [message EXCEPT ![r] = m]
        /\ calls' = [calls EXCEPT ![r] = @ + 1]
        /\ down_statuses' = [down_statuses EXCEPT ![r] = IF IsStart(m) THEN @ \cup {m.status} ELSE @]

\* One responder.send call of request r with message m, the responder
\* being rs when the call is made.
\* fail_at is the position, among the transport send calls the responder
\* makes, of the one that raises (0: none does).
DeliverAt(r, rs, m, fail_at) ==
    LET res == send(rs, m, request[r], as_html[r])
        t == Transport(res.out, fail_at)
    IN  /\ responder' = [responder EXCEPT ![r] = res.self]
        /\ sent' = [sent EXCEPT ![r] = @ \o t.delivered]
        /\ attempts' = [attempts EXCEPT ![r] = @ + t.attempts]
        /\ raised' = [raised EXCEPT ![r] = IF t.exc # "none" THEN t.exc ELSE res.exc]
        /\ message' = [message EXCEPT ![r] = m]
        /\ calls' = [calls EXCEPT ![r] = @ + 1]
        /\ down_statuses' = [down_statuses EXCEPT ![r] = IF IsStart(m) THEN @ \cup {m.status} ELSE @]

\* One responder.send call over a transport that accepts every event
Deliver(r, rs, m) == DeliverAt(r, rs, m, 0)

\* InertiaMiddleware.__call__ up to the application or local response it
\* awaits; handler is what the wrapped application will do with the request:
\* return a Response object, or drive its send channel itself (RawApp).
\* inertia_version is the value of self._inertia_version the responder is
\* created with, server_version its value at the version check.
Serve(r, req, handler, inertia_version, server_version) ==
    LET c == Classify(req, server_version)
    IN  /\ r \in live
        /\ middleware.built = "yes"
        /\ req.type # "http" => handler = RawApp
        /\ request' = [request EXCEPT ![r] = req]
        /\ responder' = [responder EXCEPT ![r] = NewResponder(inertia_version)]
        /\ as_html' = [as_html EXCEPT ![r] = c.html]
        /\ app_called' = [app_called EXCEPT ![r] = c.to = "app"]
        /\ response' = [response EXCEPT ![r] =
                            IF c.to = "local" THEN c.local
                            ELSE IF handler = RawApp THEN NoResponse ELSE handler]
        /\ pc' = [pc EXCEPT ![r] =
                      IF c.to = "app" /\ handler = RawApp THEN "raw" ELSE "start"]
        /\ UNCHANGED <<middleware, asset_version, live, message, raised, calls, down_statuses, sent, attempts>>

\* InertiaMiddleware.__call__ with asset_version a configured string: both
\* reads of self._inertia_version give that string.
Call(r, req, handler) ==
    /\ pc[r] = "idle"
    /\ Serve(r, req, handler, InertiaVersion, InertiaVersion)

\* Response.__call__ / InertiaResponse.__call__: await send(Start).  The
\* message carries the response's own header list, so the headers the
\* responder sets on the buffered message are set on the response too.
ResponseStart(r) ==
    LET m == StartMessage(response[r].status_code, response[r].raw_headers)
        res == send(responder[r], m, request[r], as_html[r])
    IN  /\ pc[r] = "start"
        /\ Deliver(r, responder[r], m)
        /\ response' = [response EXCEPT ![r].raw_headers =
                            IF res.self.has_message THEN res.self.message.headers ELSE @]
        /\ pc' = [pc EXCEPT ![r] = IF res.exc = "none" THEN "body" ELSE "failed"]
        /\ UNCHANGED <<middleware, asset_version, live, request, as_html, app_called>>

\* Response.__call__ / InertiaResponse.__call__: the rest, await send(Body).
\* Deleting the internal headers from the response's header list deletes
\* them from the buffered message, which holds the same list.
ResponseBodyAt(r, fail_at) ==
    LET resp == response[r]
        page == InertiaPage(resp)
        inertia == resp.class = "InertiaResponse"
        rs == IF inertia /\ responder[r].has_message
              THEN [responder[r] EXCEPT !.message.headers = page.raw_headers]
              ELSE responder[r]
        m == BodyMessage(IF inertia THEN page.body ELSE resp.body)
        res == send(rs, m, request[r], as_html[r])
    IN  /\ pc[r] = "body"
        /\ fail_at \in 0 .. Len(res.out)
        /\ DeliverAt(r, rs, m, fail_at)
        /\ response' = [response EXCEPT ![r] =
                            IF inertia
                            THEN [resp EXCEPT !.raw_headers = page.raw_headers,
                                              !.body = page.body]
                            ELSE resp]
        /\ pc' = [pc EXCEPT ![r] = IF raised'[r] = "none" THEN "done" ELSE "failed"]
        /\ UNCHANGED <<middleware, asset_version, live, request, as_html, app_called>>

\* The same over a transport that accepts every event
ResponseBody(r) == ResponseBodyAt(r, 0)

\* A free-form application passes message m to its send channel; when the
\* call raises, it either handles the exception and goes on or lets it out.
RawSendAt(r, m, handles, fail_at) ==
    LET res == send(responder[r], m, request[r], as_html[r])
    IN  /\ pc[r] = "raw"
        /\ calls[r] < MaxEvents
        /\ m \in RawMessages(request[r])
        /\ fail_at \in 0 .. Len(res.out)
        /\ DeliverAt(r, responder[r], m, fail_at)
        /\ pc' = [pc EXCEPT ![r] = IF raised'[r] = "none" \/ handles THEN "raw" ELSE "failed"]
        /\ UNCHANGED <<middleware, asset_version, live, request, as_html, app_called, response>>

\* The same over a transport that accepts every event
RawSend(r, m, handles) == RawSendAt(r, m, handles, 0)

\* A free-form application returns.
RawReturn(r) ==
    /\ pc[r] = "raw"
    /\ pc' = [pc EXCEPT ![r] = "done"]
    /\ UNCHANGED <<middleware, asset_version, live, request, as_html, app_called, responder,
                   response, message, raised, calls, down_statuses, sent, attempts>>

Next ==
    \E r \in Reqs :
        \/ \E req \in Requests, handler \in Handlers : Call(r, req, handler)
        \/ ResponseStart(r)
        \/ ResponseBody(r)
        \/ \E m \in RawMessages(request[r]), handles \in BOOLEAN : RawSend(r, m, handles)
        \/ RawReturn(r)

Spec == Init /\ [][Next]_vars

\* The application object is created with a middleware configuration; the
\* middleware stack is not built yet.
InitConfig ==
    /\ middleware \in { [kwargs |-> k, built |-> "no"] : k \in ConfigKwargs }
    /\ asset_version = None
    /\ live = {"r1"}
    /\ NoRequestYet

\* InertiaMiddleware(app, **kwargs) when the middleware stack is built
Construct ==
    /\ middleware.built = "no"
    /\ middleware' = NewMiddleware(middleware.kwargs)
    /\ asset_version' = IF middleware'.built = "yes"
                        THEN middleware.kwargs.asset_version ELSE asset_version
    /\ UNCHANGED <<live, pc, request, as_html, app_called, responder, response,
                   message, raised, calls, down_statuses, sent, attempts>>

NextConfig == Construct \/ Next

SpecConfig == InitConfig /\ [][NextConfig]_vars

\* Requests served while asset_version is a provider function
ProviderRequests ==
    { req \in HttpRequests :
        /\ req.method \in {"GET", "POST"}
        /\ req.path = "/"
        /\ Get(req.headers, "x-requested-with") \in {None, "XMLHttpRequest"}
        /\ Get(req.headers, "x-inertia") = "true"
        /\ Get(req.headers, "x-inertia-version") \in Versions }

\* asset_version is a provider function; it returns one of Versions.
InitProvider ==
    /\ asset_version \in Versions
    /\ middleware = NewMiddleware([asset_version |-> "provider"])
    /\ live = {"r1"}
    /\ NoRequestYet

\* The provider's result changes (a new build of the assets is deployed).
ProviderChange ==
    /\ asset_version' \in Versions \ {asset_version}
    /\ UNCHANGED <<middleware, live, pc, request, as_html, app_called, responder,
                   response, message, raised, calls, down_statuses, sent, attempts>>

\* InertiaMiddleware.__call__ up to wrapped_send: the responder is created
\* with the provider's result of this moment.
Enter(r, req) ==
    /\ r \in live
    /\ middleware.built = "yes"
    /\ pc[r] = "idle"
    /\ pc' = [pc EXCEPT ![r] = "entered"]
    /\ request' = [request EXCEPT ![r] = req]
    /\ responder' = [responder EXCEPT ![r] = NewResponder(InertiaVersion)]
    /\ UNCHANGED <<middleware, asset_version, live, as_html, app_called, response,
                   message, raised, calls, down_statuses, sent, attempts>>

\* InertiaMiddleware.__call__, the rest: the version check calls the
\* provider again.
Proceed(r, handler) ==
    /\ pc[r] = "entered"
    /\ Serve(r, request[r], handler, responder[r].inertia_version, InertiaVersion)

NextProvider ==
    \/ ProviderChange
    \/ \E r \in Reqs :
          \/ \E req \in ProviderRequests : Enter(r, req)
          \/ \E handler \in HandlerResponses : Proceed(r, handler)
          \/ ResponseStart(r)
          \/ ResponseBody(r)

SpecProvider == InitProvider /\ [][NextProvider]_vars

\* Requests of two clients served at the same time
ConcurrentRequests ==
    { req \in HttpRequests :
        /\ req.method \in {"GET", "PUT"}
        /\ \/ req.headers = EmptyHeaders
           \/ /\ Get(req.headers, "x-requested-with") = "XMLHttpRequest"
              /\ Get(req.headers, "x-inertia") = "true"
              /\ Get(req.headers, "x-inertia-version") \in Versions }

\* Two requests are admitted; none has entered the middleware.
InitTwo ==
    /\ asset_version \in AssetVersions
    /\ middleware = NewMiddleware([asset_version |-> asset_version])
    /\ live = Reqs
    /\ NoRequestYet

\* The tasks of the two requests, interleaved at every await
NextTwo ==
    \E r \in Reqs :
        \/ \E req \in ConcurrentRequests, handler \in HandlerResponses : Call(r, req, handler)
        \/ ResponseStart(r)
        \/ ResponseBody(r)

SpecTwo == InitTwo /\ [][NextTwo]_vars

\* The same middleware over transports whose send may raise
NextFail ==
    \E r \in Reqs :
        \/ \E req \in ConcurrentRequests, handler \in Handlers : Call(r, req, handler)
        \/ ResponseStart(r)
        \/ \E fail_at \in 0 .. 2 : ResponseBodyAt(r, fail_at)
        \/ \E m \in RawMessages(request[r]), handles \in BOOLEAN, fail_at \in 0 .. 2 :
              RawSendAt(r, m, handles, fail_at)
        \/ RawReturn(r)

SpecFail == Init /\ [][NextFail]_vars

\* The same middleware serving partial-reload requests
NextPartial ==
    \E r \in Reqs :
        \/ \E req \in PartialRequests, handler \in PartialHandlers : Call(r, req, handler)
        \/ ResponseStart(r)
        \/ ResponseBody(r)

SpecPartial == Init /\ [][NextPartial]_vars

-----------------------------------------------------------------------------
(* Properties *)

\* Request r has entered the middleware as an HTTP request.
Http(r) == pc[r] # "idle" /\ request[r].type = "http"

Header(r, k) == Get(request[r].headers, k)

Ajax(r) == Header(r, "x-requested-with") = "XMLHttpRequest"

Marked(r) == Header(r, "x-inertia") \notin {None, ""}

\* The Start events delivered to the transport of request r
StartsSent(r) == { i \in DOMAIN sent[r] : sent[r][i].type = StartType }

\* Request r was answered by exactly one Start of the given status followed
\* by one Body.
Answered(r, status) ==
    /\ Len(sent[r]) = 2
    /\ sent[r][1].type = StartType
    /\ sent[r][1].status = status
    /\ sent[r][2].type = BodyType

\* The request's full URL, query string included
FullUrl(r) ==
    "http://testserver" \o request[r].path
        \o (IF request[r].query = "" THEN "" ELSE "?" \o request[r].query)

\* C1: an AJAX request without the Inertia marker (absent or empty) is
\* answered with status 400 whatever its method and other headers: no Start
\* of another status is ever delivered, the exchange completes with exactly
\* that answer, and the wrapped application is never invoked.
C1_MissingMarker400 ==
    \A r \in Reqs :
        (Http(r) /\ Ajax(r) /\ ~ Marked(r)) =>
            /\ ~ app_called[r]
            /\ pc[r] \in {"start", "body", "done"}
            /\ \A i \in StartsSent(r) : sent[r][i].status = 400
            /\ pc[r] = "done" => Answered(r, 400)

C1_Witness ==
    \E r \in Reqs :
        /\ Http(r) /\ Ajax(r) /\ Header(r, "x-inertia") = ""
        /\ request[r].method = "PUT"
        /\ Header(r, "x-inertia-version") = "bar"
        /\ pc[r] = "done" /\ Answered(r, 400)

\* C2: a GET Inertia request with a non-empty client version differing from
\* the server version is answered with status 409 and X-Inertia-Location
\* equal to the request's full URL; the wrapped application is never invoked.
C2_StaleGet409 ==
    \A r \in Reqs :
        (/\ Http(r) /\ Ajax(r) /\ Marked(r)
         /\ request[r].method = "GET"
         /\ Header(r, "x-inertia-version") \notin {None, "", asset_version}) =>
            /\ ~ app_called[r]
            /\ pc[r] \in {"start", "body", "done"}
            /\ \A i \in StartsSent(r) :
                  /\ sent[r][i].status = 409
                  /\ Get(sent[r][i].headers, "x-inertia-location") = FullUrl(r)
            /\ pc[r] = "done" => Answered(r, 409)

C2_Witness ==
    \E r \in Reqs :
        /\ Http(r) /\ Ajax(r) /\ Marked(r)
        /\ request[r].method = "GET"
        /\ Header(r, "x-inertia-version") = "bar" /\ asset_version = "foo"
        /\ request[r].query = "page=2"
        /\ pc[r] = "done" /\ Answered(r, 409)
        /\ Get(sent[r][1].headers, "x-inertia-location") = "http://testserver/unknown?page=2"

\* C3: a request that is not a GET (and is not the malformed AJAX request
\* of C1) is always handed to the wrapped application, version mismatch or
\* not: no 409 is delivered, and a delivered status is one the application
\* emitted, or the 303 a 302 is coerced to.
C3_NonGetPassedOn ==
    \A r \in Reqs :
        (Http(r) /\ request[r].method # "GET" /\ (Ajax(r) => Marked(r))) =>
            /\ app_called[r]
            /\ \A i \in StartsSent(r) :
                  /\ sent[r][i].status # 409
                  /\ \/ sent[r][i].status \in down_statuses[r]
                     \/ /\ sent[r][i].status = 303
                        /\ 302 \in down_statuses[r]
                        /\ request[r].method \in {"PUT", "PATCH", "DELETE"}

C3_Witness ==
    \E r \in Reqs :
        /\ Http(r) /\ Ajax(r) /\ Marked(r)
        /\ request[r].method = "POST"
        /\ Header(r, "x-inertia-version") = "bar" /\ asset_version = "foo"
        /\ pc[r] = "done" /\ Answered(r, 200)

\* C4 as claimed: a GET Inertia request whose client version is absent or
\* empty is never treated as stale: no 409, and the wrapped application is
\* invoked.
C4_AbsentVersionNeverStale ==
    \A r \in Reqs :
        (/\ Http(r) /\ Ajax(r) /\ Marked(r)
         /\ request[r].method = "GET"
         /\ Header(r, "x-inertia-version") \in {None, ""}) =>
            /\ app_called[r]
            /\ \A i \in StartsSent(r) : sent[r][i].status # 409

\* C4 as amended: a GET Inertia request whose client version is absent or
\* empty is treated like any other version that differs from the server's:
\* it is answered 409 and never handed to the wrapped application.
C4_AbsentVersionIsStale ==
    \A r \in Reqs :
        (/\ Http(r) /\ Ajax(r) /\ Marked(r)
         /\ request[r].method = "GET"
         /\ Header(r, "x-inertia-version") \in {None, ""}
         /\ Header(r, "x-inertia-version") # asset_version) =>
            /\ ~ app_called[r]
            /\ response[r].status_code = 409
            /\ \A i \in StartsSent(r) : sent[r][i].status = 409
            /\ pc[r] = "done" => Answered(r, 409)

C4_Witness ==
    \E r \in Reqs :
        /\ Http(r) /\ Ajax(r) /\ Marked(r)
        /\ request[r].method = "GET"
        /\ Header(r, "x-inertia-version") = ""
        /\ pc[r] = "done" /\ Answered(r, 409) /\ ~ app_called[r]

\* C5: a GET Inertia request carrying no X-Inertia-Version header at all is
\* answered with status 409, on any path, routed or not.
C5_NoVersionHeader409 ==
    \A r \in Reqs :
        (/\ Http(r) /\ Ajax(r) /\ Marked(r)
         /\ request[r].method = "GET"
         /\ "x-inertia-version" \notin DOMAIN request[r].headers) =>
            /\ pc[r] \in {"start", "body", "done"}
            /\ \A i \in StartsSent(r) : sent[r][i].status = 409
            /\ pc[r] = "done" => Answered(r, 409)

C5_Witness ==
    \E r \in Reqs :
        /\ Http(r) /\ Ajax(r) /\ Marked(r)
        /\ request[r].method = "GET"
        /\ "x-inertia-version" \notin DOMAIN request[r].headers
        /\ request[r].path = "/unknown"
        /\ pc[r] = "done" /\ Answered(r, 409)

\* The methods whose 302 is turned into a 303
Rewritten == {"PUT", "PATCH", "DELETE"}

\* The Start at position i of request r's transport is a coerced redirect:
\* a 303 for a 302 the wrapped application answered to a rewritten method.
CoercedStart(r, i) ==
    /\ sent[r][i].status = 303
    /\ request[r].method \in Rewritten
    /\ 302 \in down_statuses[r]
    /\ response[r].class # "none" => response[r].status_code = 302

\* The Start at position i of request r's transport carries a status the
\* wrapped application emitted (the status of its Response object).
DownstreamStatus(r, i) ==
    /\ sent[r][i].status \in down_statuses[r]
    /\ response[r].class # "none" => sent[r][i].status = response[r].status_code

\* C6 as claimed: for a request without X-Requested-With: XMLHttpRequest,
\* whatever its method and the downstream status, every delivered Start has
\* the downstream's status and Content-Type text/html.
C6_PlainNavigationStatus ==
    \A r \in Reqs :
        (Http(r) /\ ~ Ajax(r)) =>
            \A i \in StartsSent(r) :
                /\ DownstreamStatus(r, i)
                /\ Get(sent[r][i].headers, "content-type") = "text/html"

\* C6 as amended: for a request without X-Requested-With: XMLHttpRequest,
\* every delivered Start has the downstream's status and Content-Type
\* text/html, except a 302 answered to a PUT, PATCH or DELETE request, which
\* is delivered as 303 with the downstream's headers as they were.
C6_PlainNavigationStatusOr303 ==
    \A r \in Reqs :
        (Http(r) /\ ~ Ajax(r)) =>
            \A i \in StartsSent(r) :
                \/ /\ DownstreamStatus(r, i)
                   /\ Get(sent[r][i].headers, "content-type") = "text/html"
                   /\ ~ (request[r].method \in Rewritten /\ sent[r][i].status = 302)
                \/ /\ CoercedStart(r, i)
                   /\ "x-inertia" \notin DOMAIN sent[r][i].headers
                   /\ Get(sent[r][i].headers, "content-type") # "text/html"

C6_Witness ==
    \E r \in Reqs :
        /\ Http(r) /\ Header(r, "x-requested-with") = "fetch"
        /\ request[r].method = "POST"
        /\ response[r].class = "PlainTextResponse"
        /\ pc[r] = "done" /\ Answered(r, 404)
        /\ Get(sent[r][1].headers, "content-type") = "text/html"

\* C7: an Inertia request with a matching version whose handler returns an
\* InertiaResponse of status 200 is answered with Content-Type
\* application/json and a body that is the JSON page object of the handler's
\* component, the server version, the handler's props and the request path.
C7_JsonPageObject ==
    \A r \in Reqs :
        (/\ Http(r) /\ Ajax(r) /\ Marked(r)
         /\ Header(r, "x-inertia-version") = asset_version
         /\ response[r].class = "InertiaResponse"
         /\ response[r].status_code = 200) =>
            /\ pc[r] \in {"start", "body", "done"}
            /\ pc[r] = "done" =>
                  /\ Answered(r, 200)
                  /\ Get(sent[r][1].headers, "content-type") = "application/json"
                  /\ response[r].component = "Test"
                  /\ response[r].content = << <<"foo", "bar">> >>
                  /\ sent[r][2].body =
                        "{\"component\":\"Test\",\"version\":\"" \o asset_version
                            \o "\",\"props\":{\"foo\":\"bar\"},\"url\":\""
                            \o request[r].path \o "\"}"

C7_Witness ==
    \E r \in Reqs :
        /\ Http(r) /\ Ajax(r) /\ Marked(r)
        /\ request[r].method = "GET" /\ request[r].path = "/"
        /\ Header(r, "x-inertia-version") = "foo" /\ asset_version = "foo"
        /\ response[r].class = "InertiaResponse"
        /\ pc[r] = "done" /\ Answered(r, 200)
        /\ sent[r][2].body =
              "{\"component\":\"Test\",\"version\":\"foo\",\"props\":{\"foo\":\"bar\"},\"url\":\"/\"}"

\* request r's responder.send is called in this step
SendCalled(r) == calls'[r] = calls[r] + 1

\* the events the step delivers to request r's transport
Delivered(r) == SubSeq(sent'[r], Len(sent[r]) + 1, Len(sent'[r]))

\* C8: when the wrapped application emits a Start of status 302 that has a
\* Location, then for PUT, PATCH and DELETE the call delivers one Start of
\* status 303 with the same Location, and for every other method the call
\* delivers nothing and the Start delivered later has status 302.
C8_RedirectCoercion ==
    [][\A r \in Reqs :
          /\ (/\ SendCalled(r) /\ request'[r].type = "http"
              /\ message'[r].type = StartType /\ message'[r].status = 302
              /\ "location" \in DOMAIN WithHeaders(message'[r]).headers) =>
                 IF request'[r].method \in {"PUT", "PATCH", "DELETE"}
                 THEN /\ Len(Delivered(r)) = 1
                      /\ Delivered(r)[1].type = StartType
                      /\ Delivered(r)[1].status = 303
                      /\ Get(Delivered(r)[1].headers, "location")
                            = message'[r].headers["location"]
                 ELSE /\ Delivered(r) = <<>>
                      /\ raised'[r] = "none"
          /\ (/\ SendCalled(r) /\ request'[r].type = "http"
              /\ request'[r].method \notin {"PUT", "PATCH", "DELETE"}
              /\ down_statuses'[r] = {302}) =>
                 \A i \in DOMAIN Delivered(r) :
                     Delivered(r)[i].type = StartType =>
                         /\ Delivered(r)[i].status = 302
                         /\ response'[r].class = "RedirectResponse" =>
                               Get(Delivered(r)[i].headers, "location") = "/next"
      ]_vars

C8_Witness ==
    \E r \in Reqs :
        /\ Http(r) /\ request[r].method = "DELETE"
        /\ response[r].class = "RedirectResponse"
        /\ Len(sent[r]) = 1
        /\ sent[r][1].type = StartType /\ sent[r][1].status = 303
        /\ Get(sent[r][1].headers, "location") = "/next"

\* C9: when the first Body the wrapped application emits for a response is
\* a non-final chunk, the send call raises and delivers nothing: the chunk
\* is not forwarded and the buffered Start is not flushed.
C9_StreamingRejected ==
    [][\A r \in Reqs :
          (/\ SendCalled(r)
           /\ message'[r].type = BodyType
           /\ MoreBody(message'[r])
           /\ ~ responder[r].started) =>
              /\ raised'[r] = "ValueError"
              /\ sent'[r] = sent[r]
              /\ pc'[r] \in {"raw", "failed"}
      ]_vars

C9_Witness ==
    \E r \in Reqs :
        /\ Http(r) /\ calls[r] = 2
        /\ responder[r].has_message /\ responder[r].started
        /\ message[r].type = BodyType /\ MoreBody(message[r])
        /\ raised[r] = "ValueError"
        /\ sent[r] = <<>>

\* C10: every delivered Start that is not a coerced redirect carries
\* X-Inertia: true and one Content-Type, text/html exactly when the request
\* lacked the AJAX marker and application/json otherwise; the local 400 and
\* 409 answers are application/json and their body is the plain text, not
\* the HTML document.
C10_BufferedLabelling ==
    \A r \in Reqs :
        Http(r) =>
            /\ \A i \in StartsSent(r) :
                  \/ /\ CoercedStart(r, i)
                     /\ "x-inertia" \notin DOMAIN sent[r][i].headers
                  \/ /\ Get(sent[r][i].headers, "x-inertia") = "true"
                     /\ Get(sent[r][i].headers, "content-type")
                           = (IF Ajax(r) THEN "application/json" ELSE "text/html")
            /\ (~ app_called[r] /\ pc[r] = "done") =>
                  /\ Answered(r, response[r].status_code)
                  /\ response[r].status_code \in {400, 409}
                  /\ Get(sent[r][1].headers, "content-type") = "application/json"
                  /\ sent[r][2].body = (IF response[r].status_code = 400
                                        THEN "Inertia headers not found."
                                        ELSE "Inertia version does not match")

C10_Witness ==
    \E r \in Reqs :
        /\ Http(r) /\ Ajax(r) /\ ~ Marked(r)
        /\ pc[r] = "done" /\ Answered(r, 400)
        /\ Get(sent[r][1].headers, "x-inertia") = "true"
        /\ Get(sent[r][1].headers, "content-type") = "application/json"
        /\ sent[r][2].body = "Inertia headers not found."

\* The JSON page object an Inertia request to the path of request r gets
\* from the test handler (component Test, props {foo: bar})
ExpectedPage(r) ==
    "{\"component\":\"Test\",\"version\":\"" \o asset_version
        \o "\",\"props\":{\"foo\":\"bar\"},\"url\":\"" \o request[r].path \o "\"}"

\* C11: a request without the AJAX marker whose handler returns an
\* InertiaResponse is answered with an HTML document that has one container
\* element, whose data attribute holds the page object of the same
\* component, version, props and url as the JSON body an Inertia request to
\* the same path gets from that handler.
C11_HtmlEmbedsPage ==
    \A r \in Reqs :
        (/\ Http(r) /\ ~ Ajax(r)
         /\ response[r].class = "InertiaResponse"
         /\ pc[r] = "done") =>
            /\ Answered(r, response[r].status_code)
            /\ Get(sent[r][1].headers, "content-type") = "text/html"
            /\ response[r].component = "Test"
            /\ response[r].content = << <<"foo", "bar">> >>
            /\ sent[r][2].body =
                  "<!DOCTYPE html><html><head></head><body><div id=\"app\" data-page='"
                      \o ExpectedPage(r) \o "'></div></body></html>"

C11_Witness ==
    \E r \in Reqs :
        /\ Http(r) /\ Header(r, "x-requested-with") = None
        /\ request[r].method = "GET" /\ request[r].path = "/unknown"
        /\ response[r].class = "InertiaResponse"
        /\ pc[r] = "done" /\ Answered(r, 200)
        /\ sent[r][2].body =
              "<!DOCTYPE html><html><head></head><body><div id=\"app\" data-page='{\"component\":\"Test\",\"version\":\"foo\",\"props\":{\"foo\":\"bar\"},\"url\":\"/unknown\"}'></div></body></html>"


\* The JSON text of the props the client of request r asked for: the props
\* whose key the X-Inertia-Partial-Data list names when the list names a key
\* and X-Inertia-Partial-Component is the handler's component, all the
\* handler's props otherwise.
RequestedProps(r) ==
    LET all == JsonObject(response[r].content)
        three == Len(response[r].content) = 3
        data == Header(r, "x-inertia-partial-data")
    IN  IF Header(r, "x-inertia-partial-component") # response[r].component
           \/ data \in {None, ""}
        THEN all
        ELSE CASE data = "foo,bar" /\ three -> "{\"foo\":\"bar\",\"bar\":\"baz\"}"
               [] OTHER -> "{\"foo\":\"bar\"}"

\* C12: the props delivered to an Inertia request are the handler's props
\* whose key is requested when X-Inertia-Partial-Component equals the
\* handler's component and X-Inertia-Partial-Data lists at least one key
\* (a listed key the handler does not provide is dropped silently), and all
\* the handler's props in every other case.
C12_PartialReloadFilters ==
    \A r \in Reqs :
        (/\ Http(r) /\ Ajax(r) /\ Marked(r)
         /\ response[r].class = "InertiaResponse"
         /\ pc[r] = "done") =>
            /\ Answered(r, 200)
            /\ sent[r][2].body =
                  "{\"component\":\"Test\",\"version\":\"foo\",\"props\":"
                      \o RequestedProps(r) \o ",\"url\":\"/\"}"


\* The configured props callback, None when the middleware has none
PropsCallback ==
    IF "props_callback" \in DOMAIN middleware.kwargs
    THEN middleware.kwargs.props_callback ELSE None

\* The JSON texts of the union of the callback's props and the test
\* handler's props {foo: bar}, the handler's value kept for a key of both
\* (the order of the keys is free)
MergedProps ==
    CASE PropsCallback = "lambda x: {'bar': 'foo'}" ->
            { "{\"foo\":\"bar\",\"bar\":\"foo\"}", "{\"bar\":\"foo\",\"foo\":\"bar\"}" }
      [] OTHER -> { "{\"foo\":\"bar\"}" }

\* C13: a middleware configured with a props callback serves, and the props
\* it delivers are the union of the callback's props and the handler's
\* props, the handler's value winning for a key of both; without a callback
\* the delivered props are the handler's.
C13_PropsCallbackMerged ==
    /\ "props_callback" \in DOMAIN middleware.kwargs => middleware.built # "TypeError"
    /\ \A r \in Reqs :
          (/\ Http(r) /\ Ajax(r) /\ Marked(r)
           /\ response[r].class = "InertiaResponse"
           /\ response[r].status_code = 200
           /\ pc[r] = "done") =>
              /\ Answered(r, 200)
              /\ \E props \in MergedProps :
                    sent[r][2].body =
                        "{\"component\":\"Test\",\"version\":\"" \o asset_version
                            \o "\",\"props\":" \o props \o ",\"url\":\""
                            \o request[r].path \o "\"}"

\* The configured path pattern, None when the middleware has none
PathPattern ==
    IF "paths" \in DOMAIN middleware.kwargs THEN middleware.kwargs.paths ELSE None

\* The request path is one the configured pattern matches
PathMatches(r) ==
    \/ PathPattern = None
    \/ PathPattern = "/(foo|bar)" /\ request[r].path \in {"/foo", "/bar"}

\* C14: a middleware configured with a path pattern serves; a request whose
\* path the pattern does not match is handed to the wrapped application
\* without classification or version check (never a 400 or 409 of the
\* middleware), and a request whose path matches, or any request when no
\* pattern is configured, is classified: an Inertia GET without a version
\* is answered 409 and not handed on.
C14_PathPattern ==
    /\ "paths" \in DOMAIN middleware.kwargs => middleware.built # "TypeError"
    /\ \A r \in Reqs :
          Http(r) =>
              IF PathMatches(r)
              THEN (/\ Ajax(r) /\ Marked(r) /\ request[r].method = "GET"
                    /\ Header(r, "x-inertia-version") = None) =>
                      /\ ~ app_called[r]
                      /\ pc[r] = "done" => Answered(r, 409)
              ELSE /\ app_called[r]
                   /\ \A i \in StartsSent(r) : sent[r][i].status \in down_statuses[r]


\* C15: when the Start of a PUT, PATCH or DELETE request was coerced from
\* 302 to 303 and sent, the send call for the next Body raises nothing and
\* delivers that Body and nothing else, so that the response completes.
C15_BodyAfterCoercedStart ==
    [][\A r \in Reqs :
          (/\ SendCalled(r)
           /\ request[r].type = "http"
           /\ request[r].method \in {"PUT", "PATCH", "DELETE"}
           /\ message[r].type = StartType /\ message[r].status = 302
           /\ raised[r] = "none"
           /\ message'[r].type = BodyType /\ ~ MoreBody(message'[r])) =>
              /\ raised'[r] = "none"
              /\ Len(Delivered(r)) = 1
              /\ Delivered(r)[1].type = BodyType
              /\ Delivered(r)[1].body = message'[r].body
              /\ pc'[r] # "failed"
      ]_vars


\* C16: a Start that is not a coerced redirect is kept and not delivered by
\* the call it arrives in; the first final Body of a response whose Start
\* is kept delivers that Start and then the Body in the same call, nothing
\* between them; and no call delivers a kept Start in another way or a
\* second time.
C16_BufferedStartFlush ==
    [][\A r \in Reqs :
          (SendCalled(r) /\ request'[r].type = "http") =>
              /\ (/\ message'[r].type = StartType
                  /\ ~ Coerced(request'[r].method, message'[r].status)) =>
                     /\ Delivered(r) = <<>>
                     /\ responder'[r].has_message
                     /\ responder'[r].message.status = message'[r].status
              /\ (/\ message'[r].type = BodyType /\ ~ MoreBody(message'[r])
                  /\ ~ responder[r].started /\ responder[r].has_message) =>
                     /\ Len(Delivered(r)) = 2
                     /\ Delivered(r)[1].type = StartType
                     /\ Delivered(r)[1].status = responder[r].message.status
                     /\ Delivered(r)[2].type = BodyType
              /\ message'[r].type = BodyType =>
                     \A i \in DOMAIN Delivered(r) :
                         Delivered(r)[i].type = StartType =>
                             /\ i = 1 /\ Len(Delivered(r)) = 2
                             /\ Delivered(r)[2].type = BodyType
                             /\ ~ MoreBody(Delivered(r)[2])
                             /\ ~ responder[r].started
                             /\ \A j \in StartsSent(r) :
                                   /\ sent[r][j].status = 303
                                   /\ request[r].method \in Rewritten
      ]_vars

C16_Witness ==
    \E r \in Reqs :
        /\ Http(r) /\ Ajax(r) /\ Marked(r)
        /\ response[r].class = "InertiaResponse"
        /\ calls[r] = 2 /\ responder[r].started /\ responder[r].has_message
        /\ Len(sent[r]) = 2
        /\ sent[r][1].type = StartType /\ sent[r][1].status = 200
        /\ sent[r][2].type = BodyType
        /\ pc[r] = "done"


\* The response of request r is Completed: its kept Start and, right after
\* it, its final Body have been delivered.
Completed(r) ==
    /\ responder[r].started
    /\ \E i \in DOMAIN sent[r] :
          /\ i + 1 \in DOMAIN sent[r]
          /\ sent[r][i].type = StartType
          /\ sent[r][i + 1].type = BodyType /\ ~ MoreBody(sent[r][i + 1])

\* C17: once the response of a request is Completed, every further send
\* call for the request raises and delivers nothing.
C17_RejectedAfterCompleted ==
    [][\A r \in Reqs :
          (SendCalled(r) /\ Completed(r)) =>
              /\ raised'[r] # "none"
              /\ Delivered(r) = <<>>
      ]_vars


\* C18: when a request without the AJAX marker is answered with a Start
\* and the rendered HTML document, the Content-Length of the delivered
\* Start is the length of the delivered document.
C18_HtmlContentLength ==
    \A r \in Reqs :
        (/\ Http(r) /\ ~ Ajax(r) /\ as_html[r]
         /\ Len(sent[r]) >= 2
         /\ sent[r][1].type = StartType /\ sent[r][2].type = BodyType
         /\ "x-inertia" \in DOMAIN sent[r][1].headers) =>
            Get(sent[r][1].headers, "content-length") = ToString(Len(sent[r][2].body))


\* C19: with asset_version a provider function, the string the version
\* check of an Inertia request compares with X-Inertia-Version is the
\* string its responder holds for the internal version header and the page
\* object, whatever the provider returns at other moments.
C19_VersionResolvedOnce ==
    [][\A r \in Reqs :
          (/\ pc[r] = "entered" /\ pc'[r] # "entered"
           /\ Header(r, "x-requested-with") = "XMLHttpRequest"
           /\ Header(r, "x-inertia") = "true") =>
              /\ InertiaVersion = responder'[r].inertia_version
              /\ (app_called'[r] /\ request[r].method = "GET") =>
                    responder'[r].inertia_version = Header(r, "x-inertia-version")
      ]_vars


\* C20: a send call that returns changes the status of a Start in one case
\* only: a 302 of a PUT, PATCH or DELETE request is delivered as 303.  Every
\* other Start, whatever the method, the status and the mode, is kept with
\* its status and is delivered later with the status it was kept with.
C20_StatusFrame ==
    [][\A r \in Reqs :
          (SendCalled(r) /\ request'[r].type = "http" /\ raised'[r] = "none") =>
              /\ message'[r].type = StartType =>
                    IF request'[r].method \in Rewritten /\ message'[r].status = 302
                    THEN /\ Len(Delivered(r)) = 1
                         /\ Delivered(r)[1].type = StartType
                         /\ Delivered(r)[1].status = 303
                    ELSE /\ Delivered(r) = <<>>
                         /\ responder'[r].message.type = StartType
                         /\ responder'[r].message.status = message'[r].status
              /\ message'[r].type # StartType =>
                    \A i \in DOMAIN Delivered(r) :
                        Delivered(r)[i].type = StartType =>
                            /\ responder[r].has_message
                            /\ Delivered(r)[i].status = responder[r].message.status
      ]_vars

C20_Witness ==
    \E r \in Reqs :
        /\ Http(r) /\ Ajax(r) /\ Marked(r)
        /\ request[r].method = "POST"
        /\ response[r].class = "RedirectResponse"
        /\ down_statuses[r] = {302}
        /\ pc[r] = "done" /\ Answered(r, 302)


\* Request r carries a partial-reload header
PartialHeaders(r) ==
    \/ Header(r, "x-inertia-partial-component") # None
    \/ Header(r, "x-inertia-partial-data") # None

\* C21 as claimed: every Start delivered to a request with the AJAX marker
\* and without partial-reload headers has Accept in Vary, and no Start
\* delivered to a request without the AJAX marker has a Vary header (the
\* wrapped application sets none).
C21_VaryAccept ==
    \A r \in Reqs :
        Http(r) =>
            \A i \in StartsSent(r) :
                IF Ajax(r)
                THEN ~ PartialHeaders(r) => Get(sent[r][i].headers, "vary") = "Accept"
                ELSE "vary" \notin DOMAIN sent[r][i].headers

\* C21 as amended: the same, except for the 303 delivered for a 302 of a
\* PUT, PATCH or DELETE request, whose headers are the wrapped
\* application's: it has no Vary header in either mode.
C21_VaryAcceptUnlessCoerced ==
    \A r \in Reqs :
        Http(r) =>
            \A i \in StartsSent(r) :
                IF Ajax(r) /\ ~ CoercedStart(r, i)
                THEN ~ PartialHeaders(r) => Get(sent[r][i].headers, "vary") = "Accept"
                ELSE "vary" \notin DOMAIN sent[r][i].headers

C21_Witness ==
    \E r \in Reqs :
        /\ Http(r) /\ Ajax(r) /\ Marked(r) /\ ~ PartialHeaders(r)
        /\ request[r].method = "GET"
        /\ response[r].class = "PlainTextResponse" /\ response[r].status_code = 404
        /\ pc[r] = "done" /\ Answered(r, 404)
        /\ Get(sent[r][1].headers, "content-type") = "application/json"
        /\ Get(sent[r][1].headers, "vary") = "Accept"


\* C22: no Start delivered to a request with the AJAX marker that carries
\* X-Inertia-Partial-Component or X-Inertia-Partial-Data has Accept in Vary
\* (the wrapped application sets no Vary header, so it has none).
C22_NoVaryOnPartialReload ==
    \A r \in Reqs :
        (Http(r) /\ Ajax(r) /\ PartialHeaders(r)) =>
            \A i \in StartsSent(r) : "vary" \notin DOMAIN sent[r][i].headers


\* The body that request r's own response delivers: its page object or
\* plain text, inside the HTML document for a request without the AJAX
\* marker.
OwnBody(r) ==
    LET text == IF response[r].class = "InertiaResponse"
                THEN ExpectedPage(r)
                ELSE response[r].body
    IN  IF Ajax(r)
        THEN text
        ELSE "<!DOCTYPE html><html><head></head><body><div id=\"app\" data-page='"
                 \o text \o "'></div></body></html>"

\* C23: with two requests in flight and their steps interleaved, the kept
\* Start and the started flag of a request come from its own send calls,
\* and its transport receives only the Start of its own response (its own
\* status, or 303 for its own coerced 302, its own URL in the headers) and
\* then the Body of its own response.
C23_Isolation ==
    \A r \in Reqs :
        Http(r) =>
            /\ responder[r].has_message =>
                  /\ calls[r] >= 1
                  /\ responder[r].message.status = response[r].status_code
                  /\ Get(responder[r].message.headers, "x-inertia-internal-path")
                        \in {None, request[r].path}
            /\ responder[r].started => (calls[r] = 2 /\ message[r].type = BodyType)
            /\ Len(sent[r]) <= 2
            /\ Len(sent[r]) >= 1 =>
                  /\ sent[r][1].type = StartType
                  /\ \/ sent[r][1].status = response[r].status_code
                     \/ CoercedStart(r, 1)
                  /\ Get(sent[r][1].headers, "x-inertia-location") \in {None, FullUrl(r)}
                  /\ Get(sent[r][1].headers, "x-inertia-internal-path")
                        \in {None, request[r].path}
                  /\ Get(sent[r][1].headers, "location")
                        = Get(response[r].raw_headers, "location")
            /\ Len(sent[r]) = 2 =>
                  /\ sent[r][2].type = BodyType
                  /\ sent[r][2].body = OwnBody(r)
            /\ pc[r] = "done" => Answered(r, response[r].status_code)

C23_Witness ==
    /\ live = Reqs
    /\ Http("r1") /\ Http("r2")
    /\ Ajax("r1") /\ request["r1"].path = "/"
    /\ ~ Ajax("r2") /\ request["r2"].path = "/unknown"
    /\ response["r1"].class = "InertiaResponse" /\ response["r1"].status_code = 200
    /\ response["r2"].class = "InertiaResponse" /\ response["r2"].status_code = 404
    /\ pc["r1"] = "done" /\ Answered("r1", 200)
    /\ pc["r2"] = "done" /\ Answered("r2", 404)
    /\ sent["r1"][2].body # sent["r2"][2].body


\* C24: when a transport send of a send call raises, the exception leaves
\* the call and that send is the last one the call makes.  For the flush:
\* when the send of the kept Start raises, the Body is not sent, the task
\* of a Response object ends, and no later call sends the kept Start again.
C24_FlushFailureAbandons ==
    [][\A r \in Reqs :
          SendCalled(r) =>
              /\ attempts'[r] - attempts[r] > Len(Delivered(r)) =>
                    /\ raised'[r] = "ConnectionClosed"
                    /\ attempts'[r] = attempts[r] + Len(Delivered(r)) + 1
                    /\ pc[r] = "body" => pc'[r] = "failed"
              /\ (/\ message'[r].type = BodyType
                  /\ ~ responder[r].started /\ responder[r].has_message) =>
                    /\ \A i \in DOMAIN Delivered(r) :
                          Delivered(r)[i].type = BodyType =>
                              (i = 2 /\ Delivered(r)[1].type = StartType)
                    /\ Delivered(r) = <<>> => attempts'[r] <= attempts[r] + 1
              /\ (message'[r].type = BodyType /\ responder[r].started) =>
                    \A i \in DOMAIN Delivered(r) : Delivered(r)[i].type # StartType
      ]_vars

C24_Witness ==
    \E r \in Reqs :
        /\ Http(r) /\ response[r].class = "InertiaResponse"
        /\ message[r].type = BodyType
        /\ responder[r].started /\ responder[r].has_message
        /\ raised[r] = "ConnectionClosed"
        /\ attempts[r] = 1 /\ sent[r] = <<>>
        /\ pc[r] = "failed"


\* C25: whatever events the wrapped application passes to send for one
\* request, its transport receives a Body only after a Start, and receives
\* at most one Start.
C25_StartOnceBeforeBody ==
    \A r \in Reqs :
        Http(r) =>
            /\ \A i \in DOMAIN sent[r] :
                  sent[r][i].type = BodyType =>
                      \E j \in 1 .. (i - 1) : sent[r][j].type = StartType
            /\ Cardinality(StartsSent(r)) <= 1


\* C26: no Start delivered to a transport carries X-Inertia-Internal-Version
\* or X-Inertia-Internal-Path, whatever response produced it.
C26_InternalHeadersStripped ==
    \A r \in Reqs :
        Http(r) =>
            \A i \in StartsSent(r) :
                /\ "x-inertia-internal-version" \notin DOMAIN sent[r][i].headers
                /\ "x-inertia-internal-path" \notin DOMAIN sent[r][i].headers

\* C27: when an Inertia request is answered by an InertiaResponse with a
\* Start and the JSON page object, the Content-Length of the delivered Start
\* is the length of the delivered Body.
C27_JsonContentLength ==
    \A r \in Reqs :
        (/\ Http(r) /\ Ajax(r) /\ Marked(r)
         /\ response[r].class = "InertiaResponse"
         /\ pc[r] = "done") =>
            /\ Answered(r, response[r].status_code)
            /\ Get(sent[r][1].headers, "content-length") = ToString(Len(sent[r][2].body))


====
